---- MODULE Spec2Model ----
(***************************************************************************)
(* Model of the polling core of clashofclans.js: class Events              *)
(* (src/unnamed/part_000) with validateTag and fetchURL                    *)
(* (src/src/utils/utils.ts).  The three sweep loops, the maintenance       *)
(* probe, the shared admission queue, the credential cursor and the        *)
(* public watch-set API are modelled at the granularity of the JavaScript  *)
(* event loop: every action is one synchronous run between two awaits.     *)
(***************************************************************************)
EXTENDS Integers, Sequences, FiniteSets, TLC

\* ------------------------------------------------------------------ bounds
\* Number of public API calls (add*, remove*, clear*, init) the client makes.
MaxCalls == 3
\* Slots for concurrently living instances of one loop kind.
MaxInst == 2
\* The clock stops here (time units).
MaxTime == 5
\* ------------------------------------------------------- program constants
\* tagRegex = /[0289PYLQGRJCUV]{3,9}/g
MinTagLen == 3
MaxTagLen == 9
\* Times are counted in units of 30 s: setTimeout(checkMaintenace, 0.5 * 60 * 1000)
ProbeInterval == 1
\* options.refreshRate || 2 * 60 * 1000
RefreshRate == 4

TagChars == {"0", "2", "8", "9", "P", "Y", "L", "Q", "G", "R", "J", "C", "U", "V"}

Cats == {"clan", "player", "war"}
Kinds == Cats \cup {"maint"}
Procs == Kinds \X (1..MaxInst)
Kind(p) == p[1]
SweepProcs == {p \in Procs : Kind(p) \in Cats}
\* The category whose watch set the client changes while the loops run; the code
\* of the three categories differs in the names only.
ClientCats == {"clan"}

\* options.tokens: the credential pool the constructor is given.
TokenPool == <<"A", "B">>

\* Messages handed to add* / remove*: sequences of characters.
Msgs == { <<"#", "2", "P", "P">>,
          <<"2", "p", "p">>,
          <<"#", "9", "O", "o">>,
          <<"a", "b">>,
          <<>> }
\* The argument of add* / remove*: a string (the one-element list) or a list.
TagLists == {<<m>> : m \in Msgs} \cup
            { << <<"#", "2", "P", "P">>, <<"#", "9", "O", "o">> >>,
              << <<"#", "9", "O", "o">>, <<"2", "p", "p">> >>,
              << <<"2", "p", "p">>, <<"#", "2", "P", "P">> >> }

\* ----------------------------------------------------------- validateTag
Min(S) == CHOOSE x \in S : \A y \in S : x <= y

toUpperCase(ch) ==
  CASE ch = "o" -> "O"
    [] ch = "p" -> "P"
    [] ch = "q" -> "Q"
    [] ch = "u" -> "U"
    [] ch = "a" -> "A"
    [] ch = "b" -> "B"
    [] OTHER -> ch

\* msg.toUpperCase().replace(/O/g, '0')
UpperZero(msg) ==
  [i \in 1..Len(msg) |-> IF toUpperCase(msg[i]) = "O" THEN "0" ELSE toUpperCase(msg[i])]

\* .replace('#', ''): a string pattern replaces the first occurrence only
DropFirstHash(m) ==
  LET hs == {i \in 1..Len(m) : m[i] = "#"} IN
  IF hs = {} THEN m
  ELSE SubSeq(m, 1, Min(hs) - 1) \o SubSeq(m, Min(hs) + 1, Len(m))

\* tagRegex.exec(tag): leftmost, greedy run of MinTagLen..MaxTagLen tag characters
RegexExec(m) ==
  LET starts == {i \in 1..Len(m) :
                   /\ i + MinTagLen - 1 <= Len(m)
                   /\ \A j \in i..(i + MinTagLen - 1) : m[j] \in TagChars}
  IN IF starts = {} THEN <<>>
     ELSE LET i0 == Min(starts)
              lens == {n \in MinTagLen..MaxTagLen :
                         /\ i0 + n - 1 <= Len(m)
                         /\ \A j \in i0..(i0 + n - 1) : m[j] \in TagChars}
              n0 == CHOOSE n \in lens : \A k \in lens : k <= n
          IN SubSeq(m, i0, i0 + n0 - 1)

\* The result false is modelled by the empty sequence (no tag is empty).
validateTag(msg) ==
  IF msg = <<>> THEN <<>>
  ELSE LET r == RegexExec(DropFirstHash(UpperZero(msg))) IN
       IF r = <<>> THEN <<>> ELSE <<"#">> \o r

\* -------------------------------------------------------------- fetchURL
Statuses == {200, 404, 503}
\* What the network does with one request: whether a response arrived, its HTTP
\* status, whether its body parses as JSON (to a truthy value), whether it has a
\* cache-control header.  Fields that fetchURL does not get to read are fixed.
Responses ==
  {r \in [transport : BOOLEAN, status : Statuses, json : BOOLEAN, cacheControl : BOOLEAN] :
     /\ ~r.transport => (r.status = 200 /\ r.json /\ r.cacheControl)
     /\ ~r.json => r.cacheControl}

fetchURL(r) ==
  IF ~r.transport THEN [thrown |-> FALSE, ok |-> FALSE, status |-> 504]
  ELSE IF ~r.json THEN [thrown |-> FALSE, ok |-> FALSE, status |-> r.status]
  ELSE IF ~r.cacheControl THEN [thrown |-> TRUE, ok |-> FALSE, status |-> 0]
  ELSE [thrown |-> FALSE, ok |-> (r.status = 200), status |-> r.status]

\* ---------------------------------------------------------------- Client
\* encodeURIComponent on the characters of the messages: '#' is escaped.
encodeURIComponent(m) ==
  IF m = <<>> THEN <<>>
  ELSE LET RECURSIVE enc(_)
           enc(x) == IF x = <<>> THEN <<>>
                     ELSE (IF Head(x) = "#" THEN <<"%", "2", "3">> ELSE <<Head(x)>>)
                          \o enc(Tail(x))
       IN enc(m)

\* _tag(tag): encodeURIComponent(tag.toUpperCase().replace(/O|o/g, '0'))
_tag(tag) ==
  encodeURIComponent(
    [i \in 1..Len(tag) |->
       IF toUpperCase(tag[i]) \in {"O", "o"} THEN "0" ELSE toUpperCase(tag[i])])

\* The methods of Client that take one tag and no options.
Methods == {"clan", "clanWarLeague", "clanWarLeagueWarTags", "player"}

\* The path a method hands to _fetch: the segments before the tag, the encoded
\* tag, the segments after it.
Path(method, tag) ==
  CASE method = "clan" ->
         [prefix |-> <<"clans">>, tag |-> _tag(tag), suffix |-> <<>>]
    [] method = "clanWarLeague" ->
         [prefix |-> <<"clans">>, tag |-> _tag(tag), suffix |-> <<"currentwar", "leaguegroup">>]
    [] method = "clanWarLeagueWarTags" ->
         [prefix |-> <<"clanwarleagues", "wars">>, tag |-> _tag(tag), suffix |-> <<>>]
    [] method = "player" ->
         [prefix |-> <<"clanwarleagues", "wars">>, tag |-> _tag(tag), suffix |-> <<>>]

\* _fetch after the response: the parsed body, or the APIError it throws.
ClientResult(r) ==
  IF ~r.transport THEN [state |-> "thrown", code |-> 504]
  ELSE IF r.status # 200 THEN [state |-> "thrown", code |-> r.status]
  ELSE IF ~r.json THEN [state |-> "thrown", code |-> 500]
  ELSE [state |-> "returned", code |-> 200]

NoRequest ==
  [method |-> "none", arg |-> <<>>, path |-> [prefix |-> <<>>, tag |-> <<>>, suffix |-> <<>>],
   state |-> "none", code |-> 0]

\* -------------------------------------------------------------------- state
VARIABLES
  tokens,          \* options.tokens, fixed at construction
  watch,           \* clans / players / wars: per category, sequence of [tag, snap]
  loopBreak,       \* loopBreak.clan / .player / .war
  isInMaintenance,
  initialized,
  activeToken,
  queue,           \* AsyncQueue: callers that called wait() and were not yet shifted
  pc,              \* per loop instance: where it is suspended
  it,              \* per sweep instance: entries its keys() iterator has passed
  cur,             \* per instance: the tag whose request is pending
  dispatched,      \* per sweep instance: tags requested in its current pass
  handled,         \* per sweep instance: tags handed to the update handler in that pass
  startKeys,       \* per sweep instance: keys of the watch set when the pass started
  lastEvent,       \* last maintenance event emitted
  nEmit,           \* parity of the number of maintenance events emitted
  calls,           \* public API calls made so far
  last,            \* the last public API call: its name, and whether it met its no-op case
  now,             \* Date.now()
  startTime,       \* per sweep instance: startTime of its running pass
  delay,           \* per instance: the delay of its pending setTimeout
  outstanding,     \* wait() calls made so far minus shift() calls made so far
  owed,            \* per instance with a request: number of its wait() call minus shift() calls so far
  dispatchNo,      \* requests dispatched so far, modulo the size of the pool
  stable,          \* per sweep instance: tags that were watched throughout its running pass
  request          \* Client: the REST call made last, its path and its outcome

vars == <<tokens, watch, loopBreak, isInMaintenance, initialized, activeToken, queue,
          pc, it, cur, dispatched, handled, startKeys, lastEvent, nEmit, calls, last,
          now, startTime, delay, outstanding, owed, dispatchNo, stable, request>>

St ==
  [tokens |-> tokens, watch |-> watch, loopBreak |-> loopBreak,
   isInMaintenance |-> isInMaintenance, initialized |-> initialized,
   activeToken |-> activeToken, queue |-> queue, pc |-> pc, it |-> it, cur |-> cur,
   dispatched |-> dispatched, handled |-> handled,
   startKeys |-> startKeys, lastEvent |-> lastEvent, nEmit |-> nEmit, calls |-> calls,
   last |-> last, now |-> now, startTime |-> startTime, delay |-> delay,
   outstanding |-> outstanding, owed |-> owed, dispatchNo |-> dispatchNo, stable |-> stable]

Commit(s) ==
  /\ tokens' = s.tokens
  /\ watch' = s.watch
  /\ loopBreak' = s.loopBreak
  /\ isInMaintenance' = s.isInMaintenance
  /\ initialized' = s.initialized
  /\ activeToken' = s.activeToken
  /\ queue' = s.queue
  /\ pc' = s.pc
  /\ it' = s.it
  /\ cur' = s.cur
  /\ dispatched' = s.dispatched
  /\ handled' = s.handled
  /\ startKeys' = s.startKeys
  /\ lastEvent' = s.lastEvent
  /\ nEmit' = s.nEmit
  /\ calls' = s.calls
  /\ last' = s.last
  /\ now' = s.now
  /\ startTime' = s.startTime
  /\ delay' = s.delay
  /\ outstanding' = s.outstanding
  /\ owed' = s.owed
  /\ dispatchNo' = s.dispatchNo
  /\ stable' = s.stable
  /\ request' = request

Init ==
  /\ tokens = TokenPool
  /\ watch = [c \in Cats |-> <<>>]
  /\ loopBreak = [c \in Cats |-> FALSE]
  /\ isInMaintenance = FALSE
  /\ initialized = FALSE
  /\ activeToken = 0
  /\ queue = <<>>
  /\ pc = [p \in Procs |-> "idle"]
  /\ it = [p \in Procs |-> 0]
  /\ cur = [p \in Procs |-> <<>>]
  /\ dispatched = [p \in Procs |-> <<>>]
  /\ handled = [p \in Procs |-> <<>>]
  /\ startKeys = [p \in Procs |-> {}]
  /\ lastEvent = "none"
  /\ nEmit = 0
  /\ calls = 0
  /\ last = [op |-> "none", hit |-> FALSE]
  /\ now = 0
  /\ startTime = [p \in Procs |-> 0]
  /\ delay = [p \in Procs |-> 0]
  /\ outstanding = 0
  /\ owed = [p \in Procs |-> 0]
  /\ dispatchNo = 0
  /\ stable = [p \in Procs |-> {}]
  /\ request = NoRequest

\* ------------------------------------------------------- Store (watch set)
KeySet(w) == {w[i].tag : i \in 1..Len(w)}
StoreHas(w, tag) == tag \in KeySet(w)
Pos(w, tag) == CHOOSE i \in 1..Len(w) : w[i].tag = tag

\* Map.set: a present key keeps its place and takes the value, a new key goes last.
StoreSet(s, c, tag, v) ==
  IF StoreHas(s.watch[c], tag)
  THEN [s EXCEPT !.watch[c][Pos(s.watch[c], tag)].snap = v]
  ELSE [s EXCEPT !.watch[c] = Append(@, [tag |-> tag, snap |-> v])]

\* Map.delete: a live iterator that already passed the entry stays where it is.
StoreDelete(s, c, tag) ==
  IF ~StoreHas(s.watch[c], tag) THEN s
  ELSE LET i == Pos(s.watch[c], tag) IN
       [s EXCEPT !.watch[c] = SubSeq(@, 1, i - 1) \o SubSeq(@, i + 1, Len(@)),
                 !.it = [p \in Procs |->
                           IF Kind(p) = c /\ i <= s.it[p] THEN s.it[p] - 1 ELSE s.it[p]],
                 !.stable = [p \in Procs |->
                               IF Kind(p) = c THEN s.stable[p] \ {tag} ELSE s.stable[p]]]

\* Map.clear: a live iterator goes on with whatever is added afterwards.
StoreClear(s, c) ==
  [s EXCEPT !.watch[c] = <<>>,
            !.it = [p \in Procs |-> IF Kind(p) = c THEN 0 ELSE s.it[p]],
            !.stable = [p \in Procs |-> IF Kind(p) = c THEN {} ELSE s.stable[p]]]

\* ------------------------------------------------------------- AsyncQueue
QueueWait(q, p) == Append(q, p)
Admitted(q, p) == q # <<>> /\ Head(q) = p
QueueShift(q) == IF q = <<>> THEN q ELSE Tail(q)

\* p calls queue.wait(): it is the caller number outstanding + 1 not yet released.
CallWait(s, p) ==
  [s EXCEPT !.queue = QueueWait(@, p),
            !.owed[p] = s.outstanding + 1,
            !.outstanding = @ + 1,
            !.pc[p] = "waiting"]

\* p calls queue.shift(): one release more for every caller that still has a request.
CallShift(s, p) ==
  [s EXCEPT !.queue = QueueShift(@),
            !.outstanding = @ - 1,
            !.owed = [q \in Procs |->
                        IF q = p \/ s.pc[q] \notin {"waiting", "inflight", "throttle"}
                        THEN 0 ELSE s.owed[q] - 1]]

\* ----------------------------------------------------------- public API
\* Every call is counted and remembered.
ApiCall(s, op, hit) == [s EXCEPT !.calls = @ + 1, !.last = [op |-> op, hit |-> hit]]

\* Mutant of AddOne: the tag is set without asking whether it is there.
AddOne_NoHasCheck(s, c, msg) ==
  LET tag == validateTag(msg) IN
  IF tag # <<>> THEN StoreSet(s, c, tag, "empty") ELSE s

AddOne(s, c, msg) ==
  LET tag == validateTag(msg) IN
  IF tag # <<>> /\ ~StoreHas(s.watch[c], tag) THEN StoreSet(s, c, tag, "empty") ELSE s

RECURSIVE AddEach(_, _, _)
AddEach(s, c, list) ==
  IF list = <<>> THEN s ELSE AddEach(AddOne(s, c, Head(list)), c, Tail(list))

RemoveOne(s, c, msg) ==
  LET tag == validateTag(msg) IN
  IF tag # <<>> /\ StoreHas(s.watch[c], tag) THEN StoreDelete(s, c, tag) ELSE s

RECURSIVE RemoveEach(_, _, _)
RemoveEach(s, c, list) ==
  IF list = <<>> THEN s ELSE RemoveEach(RemoveOne(s, c, Head(list)), c, Tail(list))

ClearCat(s, c) == StoreClear([s EXCEPT !.loopBreak[c] = TRUE], c)

\* Whether a call names a tag that is in the watch set already.
MeetsPresent(c, list) ==
  \E i \in 1..Len(list) : StoreHas(watch[c], validateTag(list[i]))

\* addClans / addPlayers / addWars
addTags(c, list) == Commit(ApiCall(AddEach(St, c, list), "add", MeetsPresent(c, list)))

\* removeClans / removePlayers / removeWars
removeTags(c, list) == Commit(ApiCall(RemoveEach(St, c, list), "remove", FALSE))

\* clearClans / clearPlayers / clearWars
clearTags(c) == Commit(ApiCall(ClearCat(St, c), "clear", FALSE))

\* ---------------------------------------------------------- sweep loops
Running == {"waiting", "inflight", "throttle"}
Live == Running \cup {"timer"}

\* The pass is over (or the loop is): its iterator is dropped.
EndPass(s, p, where) ==
  [s EXCEPT !.pc[p] = where, !.it[p] = 0, !.cur[p] = <<>>, !.stable[p] = {}]

\* Mutant of waitFor: the difference is not clamped.
waitFor_Unclamped(timeTaken, refreshRate) == refreshRate - timeTaken

\* waitFor = (timeTaken >= this.refreshRate ? 0 : this.refreshRate - timeTaken)
waitFor(timeTaken, refreshRate) ==
  IF timeTaken >= refreshRate THEN 0 ELSE refreshRate - timeTaken

\* After the for loop: the deferred clear, then setTimeout for the next pass.
AfterLoop(s, p) ==
  LET c == Kind(p)
      s1 == IF s.loopBreak[c] THEN [StoreClear(s, c) EXCEPT !.loopBreak[c] = FALSE] ELSE s
      timeTaken == s.now - s.startTime[p]
  IN EndPass([s1 EXCEPT !.delay[p] = waitFor(timeTaken, RefreshRate)], p, "timer")

\* Mutant of Iterate: the pass walks a copy of the keys taken when it started.
Iterate_Snapshot(s, p) ==
  LET c == Kind(p)
      rest == s.startKeys[p] \ {s.dispatched[p][i] : i \in 1..Len(s.dispatched[p])}
  IN IF rest # {} /\ ~s.loopBreak[c]
     THEN LET tag == CHOOSE t \in rest : TRUE IN
          CallWait([s EXCEPT !.it[p] = @ + 1,
                             !.cur[p] = tag,
                             !.dispatched[p] = Append(@, tag)], p)
     ELSE AfterLoop(s, p)

\* Mutant of Iterate: every turn takes the first key of the watch set.
Iterate_Restart(s, p) ==
  LET c == Kind(p) IN
  IF s.it[p] < Len(s.watch[c]) /\ ~s.loopBreak[c]
  THEN LET tag == s.watch[c][1].tag IN
       CallWait([s EXCEPT !.it[p] = @ + 1,
                          !.cur[p] = tag,
                          !.dispatched[p] = Append(@, tag)], p)
  ELSE AfterLoop(s, p)

\* One turn of `for (const tag of store.keys())` up to the await in fetch().
Iterate(s, p) ==
  LET c == Kind(p) IN
  IF s.it[p] < Len(s.watch[c]) /\ ~s.loopBreak[c]
  THEN LET tag == s.watch[c][s.it[p] + 1].tag IN
       CallWait([s EXCEPT !.it[p] = @ + 1,
                          !.cur[p] = tag,
                          !.dispatched[p] = Append(@, tag)], p)
  ELSE AfterLoop(s, p)

\* initClanEvents / initPlayerEvents / initWarEvents up to the first await.
StartPass(s, p) ==
  LET s0 == [s EXCEPT !.dispatched[p] = <<>>, !.handled[p] = <<>>, !.startKeys[p] = {},
                       !.delay[p] = 0] IN
  IF s.isInMaintenance
  THEN EndPass(s0, p, "returned")
  ELSE Iterate([s0 EXCEPT !.it[p] = 0,
                          !.startTime[p] = s.now,
                          !.startKeys[p] = KeySet(s.watch[Kind(p)]),
                          !.stable[p] = KeySet(s.watch[Kind(p)])], p)

\* The update handler: a successful result replaces the stored snapshot of its tag.
handleUpdate(s, p, data) ==
  LET c == Kind(p)
      s1 == [s EXCEPT !.handled[p] = Append(@, s.cur[p])]
  IN IF data.ok /\ StoreHas(s.watch[c], s.cur[p])
     THEN StoreSet(s1, c, s.cur[p], "data")
     ELSE s1

\* ------------------------------------------------------ maintenance probe
\* checkMaintenace up to the await in fetch().
CheckStart(s, p) ==
  CallWait([s EXCEPT !.cur[p] = <<>>, !.delay[p] = 0], p)

Emit(s, ev) == [s EXCEPT !.lastEvent = ev, !.nEmit = 1 - @]

\* Mutant of CheckResult: the status alone decides, the flag is not consulted.
CheckResult_LevelTriggered(s, p, data) ==
  LET s1 == IF data.status = 503
            THEN Emit([s EXCEPT !.isInMaintenance = TRUE], "maintenanceStart")
            ELSE IF data.status = 200
            THEN Emit([s EXCEPT !.isInMaintenance = FALSE], "maintenanceEnd")
            ELSE s
  IN [s1 EXCEPT !.pc[p] = "timer", !.delay[p] = ProbeInterval]

\* checkMaintenace after the await.
CheckResult(s, p, data) ==
  LET s1 == IF data.status = 503 /\ ~s.isInMaintenance
            THEN Emit([s EXCEPT !.isInMaintenance = TRUE], "maintenanceStart")
            ELSE IF data.status = 200 /\ s.isInMaintenance
            THEN Emit([s EXCEPT !.isInMaintenance = FALSE], "maintenanceEnd")
            ELSE s
  IN [s1 EXCEPT !.pc[p] = "timer", !.delay[p] = ProbeInterval]

\* ------------------------------------------------------------------ init
FreeSlot(s, k) == Min({i \in 1..MaxInst : s.pc[<<k, i>>] = "idle"})
HasFreeSlots(s) == \A k \in Kinds : \E i \in 1..MaxInst : s.pc[<<k, i>>] = "idle"

\* Mutant of StartAll: the probe is started before the sweep loops.
StartAll_ProbeFirst(s) ==
  LET s1 == CheckStart(s, <<"maint", FreeSlot(s, "maint")>>)
      s2 == StartPass(s1, <<"war", FreeSlot(s, "war")>>)
      s3 == StartPass(s2, <<"clan", FreeSlot(s, "clan")>>)
  IN StartPass(s3, <<"player", FreeSlot(s, "player")>>)

\* init(): initWarEvents(), initClanEvents(), checkMaintenace(), initPlayerEvents(),
\* each run up to its first await.
StartAll(s) ==
  LET s1 == StartPass(s, <<"war", FreeSlot(s, "war")>>)
      s2 == StartPass(s1, <<"clan", FreeSlot(s, "clan")>>)
      s3 == CheckStart(s2, <<"maint", FreeSlot(s, "maint")>>)
  IN StartPass(s3, <<"player", FreeSlot(s, "player")>>)

\* Mutant of InitCall: the initialized flag is not consulted.
InitCall_NoGuard(s) == StartAll([s EXCEPT !.initialized = TRUE])

InitCall(s) ==
  IF s.initialized THEN s ELSE StartAll([s EXCEPT !.initialized = TRUE])

init ==
  /\ HasFreeSlots(St)
  /\ Commit(ApiCall(InitCall(St), "init", initialized))

\* ----------------------------------------------------------------- fetch
\* Mutant of NextCursor: the cursor does not wrap.
NextCursor_NoWrap(s) == s.activeToken + 1

\* The token getter: the credential at the cursor; the cursor moves on and wraps.
NextCursor(s) ==
  IF s.activeToken + 1 >= Len(s.tokens) THEN 0 ELSE s.activeToken + 1

\* `this.token` is read: one more request is dispatched.
TakeToken(s) ==
  [s EXCEPT !.activeToken = NextCursor(s),
            !.dispatchNo = (@ + 1) % Len(s.tokens)]

\* Mutant of FetchAdmit: the request goes out without awaiting queue.wait().
FetchAdmit_NoWait(p) ==
  /\ pc[p] = "waiting"
  /\ Commit(TakeToken([St EXCEPT !.pc[p] = "inflight"]))

\* Mutant of FetchAdmit: the queue lets the first two callers through.
FetchAdmit_TwoAtATime(p) ==
  /\ pc[p] = "waiting"
  /\ \E i \in 1..2 : i <= Len(queue) /\ queue[i] = p
  /\ Commit(TakeToken([St EXCEPT !.pc[p] = "inflight"]))

\* fetch(): wait() has resolved; the token is taken and fetchURL is called.
FetchAdmit(p) ==
  /\ pc[p] = "waiting"
  /\ Admitted(queue, p)
  /\ Commit(TakeToken([St EXCEPT !.pc[p] = "inflight"]))

\* Mutant of FetchSettle: the queue is released before the throttle is awaited.
FetchSettle_ShiftFirst(p) ==
  /\ pc[p] = "inflight"
  /\ Commit([CallShift(St, p) EXCEPT !.pc[p] = "throttle"])

\* fetchURL settles (returns or throws); the finally block awaits the throttle.
\* What it settled with is read by nobody before the throttle is over: the
\* response is drawn in FetchRelease, the step that first reads it.
FetchSettle(p) ==
  /\ pc[p] = "inflight"
  /\ Commit([St EXCEPT !.pc[p] = "throttle"])

\* Mutant of Resume: shift() is called twice.
Resume_ShiftTwice(s, p, data) ==
  LET s1 == CallShift(CallShift(s, p), p) IN
  IF data.thrown THEN EndPass(s1, p, "rejected")
  ELSE IF Kind(p) = "maint" THEN CheckResult(s1, p, data)
  ELSE Iterate(handleUpdate(s1, p, data), p)

\* Mutant of Resume: no finally block, a throw skips shift().
Resume_NoFinally(s, p, data) ==
  IF data.thrown THEN EndPass(s, p, "rejected")
  ELSE IF Kind(p) = "maint" THEN CheckResult(CallShift(s, p), p, data)
  ELSE Iterate(handleUpdate(CallShift(s, p), p, data), p)

\* fetch() after the throttle: shift(), then the caller goes on with the result,
\* or is rejected with what fetchURL threw.
Resume(s, p, data) ==
  LET s1 == CallShift(s, p) IN
  IF data.thrown THEN EndPass(s1, p, "rejected")
  ELSE IF Kind(p) = "maint" THEN CheckResult(s1, p, data)
  ELSE Iterate(handleUpdate(s1, p, data), p)

FetchRelease(p, r) ==
  /\ pc[p] = "throttle"
  /\ Commit(Resume(St, p, fetchURL(r)))

\* setTimeout fires: the next pass, or the next probe.
TimerFire(p) ==
  /\ pc[p] = "timer"
  /\ Commit(IF Kind(p) = "maint" THEN CheckStart(St, p) ELSE StartPass(St, p))

\* ------------------------------------------------------------------ spec
\* The client changes the clan watch set and calls init() at any time.
Next ==
  \/ calls < MaxCalls /\ init
  \/ \E c \in ClientCats, l \in TagLists : calls < MaxCalls /\ addTags(c, l)
  \/ \E c \in ClientCats, l \in TagLists : calls < MaxCalls /\ removeTags(c, l)
  \/ \E c \in ClientCats : calls < MaxCalls /\ clearTags(c)
  \/ \E p \in Procs : TimerFire(p)
  \/ \E p \in Procs : FetchAdmit(p)
  \/ \E p \in Procs : FetchSettle(p)
  \/ \E p \in Procs, r \in Responses : FetchRelease(p, r)

Spec == Init /\ [][Next]_vars

\* The client puts one tag into watch sets of its choice and calls init() once;
\* then the four loops run side by side.
SetupMsg == <<"#", "2", "P", "P">>

NextLoops ==
  \/ ~initialized /\ init
  \/ \E c \in Cats : ~initialized /\ watch[c] = <<>> /\ addTags(c, <<SetupMsg>>)
  \/ \E p \in Procs : TimerFire(p)
  \/ \E p \in Procs : FetchAdmit(p)
  \/ \E p \in Procs : FetchSettle(p)
  \/ \E p \in Procs, r \in Responses : FetchRelease(p, r)

SpecLoops == Init /\ [][NextLoops]_vars

\* The scenario of the credential pool [A, B] and three clan tags: the client adds
\* the tags, calls init(), and the first clan pass runs while every clan request
\* is answered with a snapshot; the probe is answered in any way.
ScenarioTags ==
  << <<"#", "2", "P", "P">>,
     <<"#", "8", "Q", "U", "8", "J", "9", "L", "P">>,
     <<"#", "9", "9", "9">> >>

OkResponse == [transport |-> TRUE, status |-> 200, json |-> TRUE, cacheControl |-> TRUE]

NextScenario ==
  \/ ~initialized /\ watch["clan"] = <<>> /\ addTags("clan", ScenarioTags)
  \/ ~initialized /\ watch["clan"] # <<>> /\ init
  \/ \E p \in Procs : Kind(p) # "clan" /\ TimerFire(p)
  \/ \E p \in Procs : FetchAdmit(p)
  \/ \E p \in Procs : FetchSettle(p)
  \/ \E p \in Procs, r \in Responses :
       (Kind(p) = "clan" => r = OkResponse) /\ FetchRelease(p, r)

SpecScenario == Init /\ [][NextScenario]_vars

\* A response on which fetchURL throws.
ThrowResponse == [transport |-> TRUE, status |-> 200, json |-> TRUE, cacheControl |-> FALSE]

\* The client watches one clan, one player and one war and calls init(); then the
\* four loops contend for the queue, every request being answered with a snapshot
\* or in the way that makes fetchURL throw.
NextContend ==
  \/ /\ ~initialized /\ \A c \in Cats : watch[c] = <<>>
     /\ Commit(ApiCall(AddEach(AddEach(AddEach(St, "clan", <<SetupMsg>>),
                                       "player", <<SetupMsg>>),
                               "war", <<SetupMsg>>),
                       "add", FALSE))
  \/ ~initialized /\ init
  \/ \E p \in Procs : TimerFire(p)
  \/ \E p \in Procs : FetchAdmit(p)
  \/ \E p \in Procs : FetchSettle(p)
  \/ \E p \in Procs, r \in {OkResponse, ThrowResponse} : FetchRelease(p, r)

\* The scheduling the event loop gives: a resolved wait() is resumed, and every
\* fetch and every throttle() ends.  Timers need not fire.
SpecContendFair ==
  /\ Init /\ [][NextContend]_vars
  /\ WF_vars(\E p \in Procs : FetchAdmit(p))
  /\ WF_vars(\E p \in Procs : FetchSettle(p))
  /\ WF_vars(\E p \in Procs, r \in {OkResponse, ThrowResponse} : FetchRelease(p, r))

\* Time passes.
Tick ==
  /\ now < MaxTime
  /\ Commit([St EXCEPT !.now = @ + 1])

\* The client watches one clan and one player and calls init(); then the loops run
\* while time passes between their steps, every request being answered with a
\* snapshot.
NextSchedule ==
  \/ /\ ~initialized /\ watch["clan"] = <<>>
     /\ Commit(ApiCall(AddEach(AddEach(St, "clan", <<SetupMsg>>), "player", <<SetupMsg>>),
                       "add", FALSE))
  \/ ~initialized /\ init
  \/ Tick
  \/ \E p \in Procs : TimerFire(p)
  \/ \E p \in Procs : FetchAdmit(p)
  \/ \E p \in Procs : FetchSettle(p)
  \/ \E p \in Procs : FetchRelease(p, OkResponse)

SpecSchedule == Init /\ [][NextSchedule]_vars

\* The REST client alone: it makes one call after the other, each answered in
\* any way.
coreVars == <<tokens, watch, loopBreak, isInMaintenance, initialized, activeToken, queue,
              pc, it, cur, dispatched, handled, startKeys, lastEvent, nEmit, calls, last,
              now, startTime, delay, outstanding, owed, dispatchNo, stable>>

\* client.clan(tag), client.player(tag), ...: up to the await of fetch in _fetch.
ClientCall(method, tag) ==
  /\ request.state # "pending"
  /\ request' = [method |-> method, arg |-> tag, path |-> Path(method, tag),
                 state |-> "pending", code |-> 0]
  /\ UNCHANGED coreVars

\* _fetch after the await: returns the data or throws.
ClientSettle(r) ==
  /\ request.state = "pending"
  /\ request' = [request EXCEPT !.state = ClientResult(r).state, !.code = ClientResult(r).code]
  /\ UNCHANGED coreVars

NextClient ==
  \/ \E method \in Methods, tag \in Msgs : ClientCall(method, tag)
  \/ \E r \in Responses : ClientSettle(r)

SpecClient == Init /\ [][NextClient]_vars

\* ---------------------------------------------------------------- claims
Range(f) == {f[i] : i \in 1..Len(f)}
MaintProcs == {p \in Procs : Kind(p) = "maint"}

\* C1: once init() has been called every sweep loop keeps running for ever,
\* whatever the maintenance probe observes: no sweep loop ever returns without
\* having scheduled its next pass.
C1_SweepLoopsNeverStop == \A p \in SweepProcs : pc[p] # "returned"

\* C2: at most one caller is between its admission by the queue and its release.
C2_OneInFlight == Cardinality({p \in Procs : pc[p] \in {"inflight", "throttle"}}) <= 1

\* One request is out while the three other loops wait in the queue.
C2_Witness ==
  /\ \E p \in Procs : pc[p] = "inflight"
  /\ Cardinality({p \in Procs : pc[p] = "waiting"}) = 3

\* C3: a tag leaves a watch set only in a step that is a remove* call of it or
\* a clear* call of its category; in particular no sweep pass deletes a tag that
\* was added after the last clear*.
C3_OnlyRemoveOrClearDestroys ==
  [][\A c \in Cats : \A t \in KeySet(watch[c]) :
       t \notin KeySet(watch'[c]) =>
         (clearTags(c) \/ \E l \in TagLists : removeTags(c, l))]_vars

\* A pass of p ends in this step, by its loop running out and not by clear*'s abort.
PassEndsUnaborted(p) ==
  /\ pc[p] \in Running
  /\ pc'[p] = "timer"
  /\ ~loopBreak[Kind(p)]

C5_CooperativeAbort ==
  [][\A p \in SweepProcs :
       (pc[p] \in Running /\ loopBreak[Kind(p)]) =>
         /\ dispatched'[p] = dispatched[p]
         /\ pc'[p] \notin Running =>
               /\ pc'[p] = "timer"
               /\ handled'[p] = dispatched[p]
               /\ watch'[Kind(p)] = <<>>
               /\ ~loopBreak'[Kind(p)]]_vars

\* A probe of p comes back in this step.
ProbeReturns(p) == pc[p] = "throttle" /\ pc'[p] # "throttle"

\* C6: maintenance events are edge-triggered.  A probe emits maintenanceStart
\* exactly when it returns 503 with the flag down and maintenanceEnd exactly when
\* it returns 200 with the flag up; no other step emits or touches the flag; the
\* events alternate, beginning with maintenanceStart.
C6_EdgeTriggered ==
  /\ [](isInMaintenance <=> lastEvent = "maintenanceStart")
  /\ [][\A p \in MaintProcs :
          ProbeReturns(p) =>
            \A r \in Responses :
              FetchRelease(p, r) =>
                LET data == fetchURL(r)
                    start == ~data.thrown /\ data.status = 503 /\ ~isInMaintenance
                    end == ~data.thrown /\ data.status = 200 /\ isInMaintenance
                IN /\ (nEmit' # nEmit /\ lastEvent' = "maintenanceStart") <=> start
                   /\ (nEmit' # nEmit /\ lastEvent' = "maintenanceEnd") <=> end
                   /\ (nEmit' # nEmit) <=> (start \/ end)]_vars
  /\ [][(nEmit' # nEmit) =>
          /\ lastEvent' # lastEvent
          /\ lastEvent = "none" => lastEvent' = "maintenanceStart"]_vars
  /\ [][(nEmit' = nEmit /\ lastEvent' = lastEvent /\ isInMaintenance' = isInMaintenance)
          \/ \E p \in MaintProcs : ProbeReturns(p)]_vars

\* A maintenance window has begun and ended, and a further probe is coming back.
C6_Witness ==
  /\ lastEvent = "maintenanceEnd"
  /\ \E p \in MaintProcs : pc[p] = "throttle"

\* C7: init() is idempotent.  No loop kind ever has two passes running or
\* scheduled, and a call of init() after the first changes nothing of the loops.
C7_InitIdempotent ==
  /\ [](\A k \in Kinds : Cardinality({i \in 1..MaxInst : pc[<<k, i>>] \in Live}) <= 1)
  /\ [][(initialized /\ init) =>
          (pc' = pc /\ queue' = queue /\ activeToken' = activeToken /\ watch' = watch)]_vars

\* init() was called again while all four loops were alive.
C7_Witness ==
  /\ last = [op |-> "init", hit |-> TRUE]
  /\ \A k \in Kinds : \E i \in 1..MaxInst : pc[<<k, i>>] \in Live

\* C8: no outcome of a fetch aborts a sweep loop: whenever a pass is not waiting
\* for a request, every request it dispatched has been handed to the update
\* handler, and the loop has its next pass scheduled.
C8_FetchFailureNeverAborts ==
  \A p \in SweepProcs :
    pc[p] \notin Running =>
      (handled[p] = dispatched[p] /\ pc[p] \in {"idle", "timer", "returned"})

\* C9: a watch set never holds a tag twice, and an add* call leaves every tag that
\* is present where it is, with the snapshot it has.
C9_AddIdempotent ==
  /\ [](\A c \in Cats : \A i, j \in 1..Len(watch[c]) :
          watch[c][i].tag = watch[c][j].tag => i = j)
  /\ [][(calls' # calls /\ last'.op = "add") =>
          \A c \in Cats : \A i \in 1..Len(watch[c]) :
            i <= Len(watch'[c]) /\ watch'[c][i] = watch[c][i]]_vars

\* add* was called with a tag that is watched and has a fetched snapshot.
C9_Witness ==
  /\ last = [op |-> "add", hit |-> TRUE]
  /\ Len(watch["clan"]) = 2
  /\ watch["clan"][1].snap = "data"

ClanProcs == {p \in Procs : Kind(p) = "clan"}

\* The request of p is admitted in this step and takes the credential at the cursor.
Admits(p) == pc[p] = "waiting" /\ pc'[p] = "inflight"

\* C10 as claimed: in the scenario the three clan requests of the first pass use
\* the credentials A, B, A in that order.
C10_CredentialsABA ==
  [][\A p \in ClanProcs :
       Admits(p) => tokens[activeToken + 1] = <<"A", "B", "A">>[Len(dispatched[p])]]_vars

\* C10 as amended: in the scenario the clan update handler is invoked three times,
\* in the tags' insertion order, and the first and the second clan request both
\* use credential A: the probe that init() started is admitted between them and
\* takes B.
C10_CredentialsAA ==
  /\ [](\A p \in ClanProcs : pc[p] = "timer" => handled[p] = ScenarioTags)
  /\ [](\A p \in ClanProcs : \A i \in 1..Len(handled[p]) : handled[p][i] = ScenarioTags[i])
  /\ [][\A p \in ClanProcs :
          (Admits(p) /\ Len(dispatched[p]) \in {1, 2}) => tokens[activeToken + 1] = "A"]_vars

\* The first clan pass is over: three results were handed to the handler.
C10_Witness == \E p \in ClanProcs : pc[p] = "timer" /\ Len(handled[p]) = 3

\* C11: Client.player(tag) requests the player resource of the normalized tag,
\* players/{tag}, as clan(tag) requests clans/{tag}.
C11_PlayerRequestsPlayers ==
  /\ request.method = "player" =>
        request.path = [prefix |-> <<"players">>, tag |-> _tag(request.arg), suffix |-> <<>>]
  /\ request.method = "clan" =>
        request.path = [prefix |-> <<"clans">>, tag |-> _tag(request.arg), suffix |-> <<>>]

\* The request of p is released in this step: its throttle is over, shift() is called.
Releases(p) == pc[p] = "throttle" /\ pc'[p] # "throttle"

\* The callers whose wait() has resolved and that have not gone on yet.
Resolved(q, f) == {p \in Procs : f[p] = "waiting" /\ Admitted(q, p)}

\* C12: admission is FIFO across the four loops.  The caller that is admitted is
\* the one whose wait() call is the oldest among the waiting ones, and each
\* shift() resolves the wait() of exactly one waiter, the oldest, when there is one.
C12_QueueFIFO ==
  /\ [][\A p \in Procs :
          Admits(p) => \A q \in Procs : (q # p /\ pc[q] = "waiting") => owed[q] > owed[p]]_vars
  /\ [][\A p \in Procs :
          Releases(p) =>
            LET waiters == {q \in Procs : pc'[q] = "waiting"} IN
            /\ Cardinality(Resolved(queue', pc')) = IF waiters = {} THEN 0 ELSE 1
            /\ \A q \in Resolved(queue', pc') : \A w \in waiters : owed'[w] >= owed'[q]]_vars

\* The player loop, started last by init(), is admitted while two callers wait.
C12_Witness ==
  /\ \E p \in Procs : Kind(p) = "player" /\ pc[p] = "inflight"
  /\ Cardinality({q \in Procs : pc[q] = "waiting"}) = 2

\* C13 as claimed: when the Nth caller of wait() is admitted, N calls of shift()
\* have been made.
C13_NthWaitAfterNthRelease ==
  [][\A p \in Procs : Admits(p) => owed[p] <= 0]_vars

\* C13 as amended: when the Nth caller of wait() is admitted, exactly N - 1 calls
\* of shift() have been made (the first caller is admitted at once).
C13_NthWaitAfterPreviousRelease ==
  [][\A p \in Procs : Admits(p) => owed[p] = 1]_vars

\* The probe, which called wait() behind a sweep loop, has been admitted and
\* another caller is waiting behind it.
C13_Witness ==
  /\ \E p \in MaintProcs : pc[p] = "inflight" /\ owed[p] = 1
  /\ \E q \in SweepProcs : pc[q] = "waiting" /\ owed[q] = 2
  /\ \E q \in SweepProcs : pc[q] \in {"timer", "rejected"} /\ handled[q] # <<>>

\* C14: a dispatch is admitted, takes the credential, fetches, awaits the throttle
\* and calls shift(), in this order and once each, whatever the fetch settles
\* with; no request is admitted while another is fetching or in its throttle.
C14_DispatchOrder ==
  /\ [][\A p \in Procs :
          (pc[p] = "waiting" /\ pc'[p] # "waiting") =>
            /\ pc'[p] = "inflight"
            /\ activeToken' = NextCursor(St)
            /\ queue' = queue /\ outstanding' = outstanding
            /\ \A q \in Procs : pc[q] \notin {"inflight", "throttle"}]_vars
  /\ [][\A p \in Procs :
          (pc[p] = "inflight" /\ pc'[p] # "inflight") =>
            /\ pc'[p] = "throttle"
            /\ queue' = queue /\ outstanding' = outstanding
            /\ activeToken' = activeToken]_vars
  /\ [][\A p \in Procs :
          Releases(p) =>
            LET again == IF pc'[p] = "waiting" THEN 1 ELSE 0 IN
            /\ queue # <<>> /\ Head(queue) = p
            /\ queue' = Tail(queue) \o (IF again = 1 THEN <<p>> ELSE <<>>)
            /\ outstanding' = outstanding - 1 + again
            /\ activeToken' = activeToken]_vars

\* A request whose fetch threw was released: a later request is out.
C14_Witness ==
  /\ \E p \in Procs : pc[p] = "rejected"
  /\ \E q \in Procs : pc[q] = "throttle"

\* C15: the credential cursor is a global round-robin.  It stays within the pool,
\* it moves by one, wrapping, when a request is admitted and in no other step,
\* and the k-th request dispatched by any loop takes the credential (k - 1) mod N.
C15_GlobalRoundRobin ==
  /\ [](activeToken \in 0..(Len(tokens) - 1))
  /\ [][\A p \in Procs :
          Admits(p) =>
            /\ activeToken' = (activeToken + 1) % Len(tokens)
            /\ activeToken = dispatchNo]_vars
  /\ [][activeToken' # activeToken => \E p \in Procs : Admits(p)]_vars

\* The cursor has wrapped and requests of three loops have been dispatched.
C15_Witness ==
  /\ activeToken = 0
  /\ \E p \in Procs : Kind(p) = "player" /\ pc[p] = "throttle"
  /\ \E p \in Procs : Kind(p) = "clan" /\ handled[p] # <<>>
  /\ \E p \in MaintProcs : pc[p] = "timer"

\* How often tag t occurs in the sequence f.
Count(f, t) == Cardinality({i \in 1..Len(f) : f[i] = t})

C17_ProbeNeverStops ==
  /\ \A p \in MaintProcs : pc[p] \in {"idle"} \cup Live
  /\ initialized => \E p \in MaintProcs : pc[p] \in Live

\* C19: fetchURL never throws.  Whatever response the request of a loop is
\* released with, fetchURL settled with a value: {ok: false, status: 504} on a
\* transport failure, {ok: false, status: <HTTP status>} on a body that does not
\* parse, and otherwise the status with ok true exactly for 200, with or without
\* a cache-control header.
C19_FetchURLNeverThrows ==
  [][\A p \in Procs :
       Releases(p) =>
         \A r \in Responses :
           FetchRelease(p, r) =>
             LET data == fetchURL(r) IN
             /\ ~data.thrown
             /\ ~r.transport => (~data.ok /\ data.status = 504)
             /\ (r.transport /\ ~r.json) => (~data.ok /\ data.status = r.status)
             /\ (r.transport /\ r.json) =>
                   (data.status = r.status /\ (data.ok <=> r.status = 200))]_vars

\* The next pass of p is scheduled in this step.
Schedules(p) ==
  /\ pc'[p] = "timer"
  /\ <<pc[p], startTime[p], delay[p]>> # <<pc'[p], startTime'[p], delay'[p]>>

\* C18: the delay scheduled before the next pass is max(0, refreshRate - d) for a
\* pass that took d: never negative, 0 when d >= refreshRate, refreshRate - d
\* otherwise.
C18_DelayIsClampedRemainder ==
  [][\A p \in SweepProcs :
       Schedules(p) =>
         LET d == now' - startTime'[p] IN
         /\ delay'[p] >= 0
         /\ d >= RefreshRate => delay'[p] = 0
         /\ d < RefreshRate => delay'[p] = RefreshRate - d]_vars

\* A pass that took longer than refreshRate is scheduled with no delay, and a pass
\* that took less is scheduled with the remainder.
C18_Witness ==
  /\ \E p \in SweepProcs : pc[p] = "timer" /\ handled[p] # <<>> /\ delay[p] = 0
  /\ \E p \in SweepProcs : pc[p] = "timer" /\ handled[p] # <<>> /\ delay[p] = RefreshRate - 1

\* C20: no loop starves on the queue.  Every caller of wait() is admitted in the
\* end, and whenever the queue holds callers its head is a caller that is about
\* to be admitted or one that holds the admission and will release it.
C20_NoStarvation ==
  /\ \A p \in Procs : (pc[p] = "waiting") ~> (pc[p] = "inflight")
  /\ [](\A p \in Procs : pc[p] \in Running <=> Count(queue, p) > 0)
  /\ [](queue # <<>> => pc[Head(queue)] \in Running)

\* The last of four callers in the queue has been admitted after the request of
\* a caller before it threw.
C20_Witness ==
  /\ \E p \in Procs : Kind(p) = "player" /\ pc[p] = "inflight" /\ dispatchNo = 0
  /\ \E q \in Procs : pc[q] = "rejected"

====
